---- MODULE Spec2Model ----
(***************************************************************************)
(* Model of the in-memory book service (src/unnamed/part_000): the request *)
(* handler passed to http.createServer, its helpers, and the module-level  *)
(* store (books, nextId).                                                  *)
(*                                                                         *)
(* JavaScript strings that the code inspects character by character        *)
(* (titles, authors, query values) are sequences of one-character strings. *)
(* Strings that the code only compares for equality (method, header names, *)
(* bearer token) are TLA+ strings.                                         *)
(***************************************************************************)
EXTENDS Integers, Sequences, FiniteSets, TLC

VARIABLES
  books,     \* the module-level array `books`
  nextId,    \* the module-level counter `nextId`
  pending,   \* handlers suspended at `await readBody(req)`, one per slot
  last,      \* the handler that finished last: request, body, response
  running,   \* the node process is alive
  deleted,   \* history: ids for which a DELETE answered 200
  created    \* history: records returned by POST 201 and not mutated since

vars == <<books, nextId, pending, last, running, deleted, created>>

-----------------------------------------------------------------------------
(* Bounds of the model *)

MaxNextId == 5      \* POST is not enabled once nextId has reached this value
MaxInFlight == 2    \* number of handlers that may be suspended at once

-----------------------------------------------------------------------------
(* Character data *)

UpperChars == <<"A","B","C","D","E","F","G","H","I","J","K","L","M",
                "N","O","P","Q","R","S","T","U","V","W","X","Y","Z">>
LowerChars == <<"a","b","c","d","e","f","g","h","i","j","k","l","m",
                "n","o","p","q","r","s","t","u","v","w","x","y","z">>
DigitChars == <<"0","1","2","3","4","5","6","7","8","9">>

UpperToLower ==
  [c \in {UpperChars[i] : i \in 1..Len(UpperChars)} |->
     LowerChars[CHOOSE i \in 1..Len(UpperChars) : UpperChars[i] = c]]

\* String.prototype.toLowerCase, one character
LowerChar(c) == IF c \in DOMAIN UpperToLower THEN UpperToLower[c] ELSE c

\* String.prototype.toLowerCase
toLowerCase(s) == [i \in 1..Len(s) |-> LowerChar(s[i])]

\* String.prototype.includes
includes(s, sub) ==
  \E i \in 0..(Len(s) - Len(sub)) : SubSeq(s, i + 1, i + Len(sub)) = sub

-----------------------------------------------------------------------------
(* The seed records *)

EloquentJS == <<"E","l","o","q","u","e","n","t"," ","J","S">>
MarijnHaverbeke == <<"M","a","r","i","j","n"," ","H","a","v","e","r","b","e","k","e">>
YouDontKnowJS == <<"Y","o","u"," ","D","o","n","'","t"," ","K","n","o","w"," ","J","S">>
KyleSimpson == <<"K","y","l","e"," ","S","i","m","p","s","o","n">>
CleanCode == <<"C","l","e","a","n"," ","C","o","d","e">>
RobertCMartin == <<"R","o","b","e","r","t"," ","C","."," ","M","a","r","t","i","n">>

Book(i, t, a) == [id |-> i, title |-> t, author |-> a]

SeedBooks == << Book(1, EloquentJS, MarijnHaverbeke),
                Book(2, YouDontKnowJS, KyleSimpson),
                Book(3, CleanCode, RobertCMartin) >>

SeedNextId == 4

DEMO_BEARER == "secret-token-123"

-----------------------------------------------------------------------------
(* JavaScript values found in a parsed JSON body: undefined (the property  *)
(* is not there), a string, a number.                                      *)

Undefined == [t |-> "undefined", s |-> <<>>, n |-> 0]
JStr(str) == [t |-> "string", s |-> str, n |-> 0]
JNum(num) == [t |-> "number", s |-> <<>>, n |-> num]

\* ToBoolean, as used by `!body.title`
Truthy(v) ==
  CASE v.t = "undefined" -> FALSE
    [] v.t = "string" -> v.s # <<>>
    [] v.t = "number" -> v.n # 0

RECURSIVE NatStr(_)
\* decimal digits of a natural number
NatStr(n) ==
  IF n < 10 THEN <<DigitChars[n + 1]>>
  ELSE Append(NatStr(n \div 10), DigitChars[(n % 10) + 1])

\* String(v), as used by `String(body.title)`
String(v) ==
  CASE v.t = "undefined" -> <<"u","n","d","e","f","i","n","e","d">>
    [] v.t = "string" -> v.s
    [] v.t = "number" -> IF v.n < 0 THEN <<"-">> \o NatStr(-v.n) ELSE NatStr(v.n)

(* JavaScript numbers as they occur in the pagination arithmetic: an       *)
(* integer or NaN.                                                         *)
NaN == [nan |-> TRUE, n |-> 0]
Num(k) == [nan |-> FALSE, n |-> k]

IsDigit(c) == \E i \in 1..Len(DigitChars) : DigitChars[i] = c
DigitVal(c) == (CHOOSE i \in 1..Len(DigitChars) : DigitChars[i] = c) - 1

RECURSIVE DigitsPrefix(_, _)
\* value of the longest prefix of digits of s, continuing from acc
DigitsPrefix(s, acc) ==
  IF s = <<>> \/ ~IsDigit(Head(s)) THEN acc
  ELSE DigitsPrefix(Tail(s), 10 * acc + DigitVal(Head(s)))

\* parseInt(s, 10): optional sign, then the longest prefix of digits; NaN
\* when there is no digit
parseInt(s) ==
  LET neg == s # <<>> /\ Head(s) = "-"
      signed == s # <<>> /\ Head(s) \in {"-", "+"}
      rest == IF signed THEN Tail(s) ELSE s
  IN IF rest = <<>> \/ ~IsDigit(Head(rest)) THEN NaN
     ELSE Num(IF neg THEN -DigitsPrefix(rest, 0) ELSE DigitsPrefix(rest, 0))

NumSub(a, b) == IF a.nan \/ b.nan THEN NaN ELSE Num(a.n - b.n)
NumAdd(a, b) == IF a.nan \/ b.nan THEN NaN ELSE Num(a.n + b.n)
NumMul(a, b) == IF a.nan \/ b.nan THEN NaN ELSE Num(a.n * b.n)

Max(a, b) == IF a > b THEN a ELSE b
Min(a, b) == IF a < b THEN a ELSE b

\* the relative index of Array.prototype.slice: NaN is 0, a negative index
\* counts from the end, and the result is clamped to 0..len
RelIndex(k, len) ==
  IF k.nan THEN 0
  ELSE IF k.n < 0 THEN Max(len + k.n, 0) ELSE Min(k.n, len)

\* Array.prototype.slice(start, end), 0-indexed, end exclusive
slice(list, start, end) ==
  LET k == RelIndex(start, Len(list))
      final == RelIndex(end, Len(list))
  IN IF final <= k THEN <<>> ELSE SubSeq(list, k + 1, final)

RECURSIVE filterAuthor(_, _)
\* list.filter(b => b.author.toLowerCase().includes(author.toLowerCase()))
filterAuthor(list, author) ==
  IF list = <<>> THEN <<>>
  ELSE IF includes(toLowerCase(Head(list).author), toLowerCase(author))
       THEN <<Head(list)>> \o filterAuthor(Tail(list), author)
       ELSE filterAuthor(Tail(list), author)

\* mutant of findIndex: the id taken for the position in the array
findIndex_byPosition(list, id) == IF id \in 1..Len(list) THEN id ELSE 0

\* Array.prototype.findIndex(b => b.id === id), 1-indexed; 0 when not found
findIndex(list, id) ==
  IF \E i \in 1..Len(list) : list[i].id = id
  THEN CHOOSE i \in 1..Len(list) :
         list[i].id = id /\ \A j \in 1..(i - 1) : list[j].id # id
  ELSE 0

\* mutant of splice: splice(idx) without a delete count drops the tail too
splice_tail(list, idx) == SubSeq(list, 1, idx - 1)

\* Array.prototype.splice(idx, 1): the array without its element at idx
splice(list, idx) == SubSeq(list, 1, idx - 1) \o SubSeq(list, idx + 1, Len(list))

-----------------------------------------------------------------------------
(* Requests *)

\* a query parameter: searchParams.get(name) is null when it is not given
NoParam == [present |-> FALSE, v |-> <<>>]
Param(str) == [present |-> TRUE, v |-> str]
NoQuery == [limit |-> NoParam, page |-> NoParam, author |-> NoParam]

\* the Authorization header: absent, or a scheme followed by blanks and a
\* credential
NoAuth == [present |-> FALSE, scheme |-> "", cred |-> ""]
Auth(scheme, cred) == [present |-> TRUE, scheme |-> scheme, cred |-> cred]

(* The pathname of a request is one of                                     *)
(*   "/books"       exactly /books                                         *)
(*   "/books/:id"   /books/<digits>, with the number in `id`               *)
(*   "/books/x"     begins with /books, not matched by the route pattern   *)
(*   "/other"       does not begin with /books                             *)
Req(m, p, i, a, q) == [method |-> m, path |-> p, id |-> i, auth |-> a, query |-> q]

\* pathname === '/books'
IsBooks(req) == req.path = "/books"
\* bookMatch && bookMatch[1], for bookMatch = pathname.match(/^\/books(?:\/(\d+))?$/)
HasBookId(req) == req.path = "/books/:id"
\* pathname.startsWith('/books')
StartsWithBooks(req) == req.path \in {"/books", "/books/:id", "/books/x"}

\* mutant of isProtectedMethod: DELETE left out of the list
isProtectedMethod_noDelete(req) == req.method \in {"POST", "PUT", "PATCH"}

\* ['POST', 'PUT', 'PATCH', 'DELETE'].includes(req.method)
isProtectedMethod(req) == req.method \in {"POST", "PUT", "PATCH", "DELETE"}

\* auth.match(/^Bearer\s+(.+)$/i): the scheme is matched without regard to
\* case and the credential is not empty
matchBearer(auth) ==
  auth.present /\ auth.scheme \in {"Bearer", "bearer", "BEARER"} /\ auth.cred # ""

\* token !== DEMO_BEARER, with token = matchBearer ? matchBearer[1] : null
TokenRejected(req) == ~(matchBearer(req.auth) /\ req.auth.cred = DEMO_BEARER)

\* the branch of the handler a request takes, in the order the handler tests
Route(req) ==
  IF req.method = "OPTIONS" THEN "options"
  ELSE IF req.method = "GET" /\ IsBooks(req) THEN "list"
  ELSE IF req.method = "GET" /\ HasBookId(req) THEN "get"
  ELSE IF isProtectedMethod(req) /\ StartsWithBooks(req) /\ TokenRejected(req)
       THEN "unauthorized"
  ELSE IF req.method = "POST" /\ IsBooks(req) THEN "post"
  ELSE IF req.method = "PUT" /\ HasBookId(req) THEN "put"
  ELSE IF req.method = "PATCH" /\ HasBookId(req) THEN "patch"
  ELSE IF req.method = "DELETE" /\ HasBookId(req) THEN "delete"
  ELSE "notfound"

-----------------------------------------------------------------------------
(* Request bodies.  The text of a body is empty, text that JSON.parse      *)
(* rejects, or the JSON text of an object whose title and author are as    *)
(* given (Undefined: the object has no such property).                     *)

EmptyText == [k |-> "empty", title |-> Undefined, author |-> Undefined]
BadText == [k |-> "text", title |-> Undefined, author |-> Undefined]
JsonText(t, a) == [k |-> "json", title |-> t, author |-> a]

\* what `await readBody(req)` yields: null for an empty body, the parsed
\* object, or the raw string when JSON.parse throws
readBody(raw) ==
  CASE raw.k = "empty" -> [t |-> "null", title |-> Undefined, author |-> Undefined]
    [] raw.k = "json" -> [t |-> "object", title |-> raw.title, author |-> raw.author]
    [] raw.k = "text" -> [t |-> "string", title |-> Undefined, author |-> Undefined]

\* ToBoolean(body): null is falsy, an object and a non-empty string are truthy
BodyTruthy(body) == body.t \in {"object", "string"}

\* body.title and body.author: a string has neither property
BodyTitle(body) == IF body.t = "object" THEN body.title ELSE Undefined
BodyAuthor(body) == IF body.t = "object" THEN body.author ELSE Undefined

\* mutant of MissingTitleOrAuthor: the author is not tested
MissingTitle(body) == ~BodyTruthy(body) \/ ~Truthy(BodyTitle(body))

\* !body || !body.title || !body.author
MissingTitleOrAuthor(body) ==
  ~BodyTruthy(body) \/ ~Truthy(BodyTitle(body)) \/ ~Truthy(BodyAuthor(body))

-----------------------------------------------------------------------------
(* Responses.  `hdrs` are the names of the headers the response was sent   *)
(* with; `ended` says res.end() has been called, after which the headers   *)
(* are on the wire.                                                        *)

CorsHeaders == { "Access-Control-Allow-Origin", "Access-Control-Allow-Methods",
                 "Access-Control-Allow-Headers" }

Payload(kind, data, page, limit, total) ==
  [kind |-> kind, data |-> data, page |-> page, limit |-> limit, total |-> total]

ErrorPayload == Payload("error", <<>>, NaN, NaN, 0)
BookPayload(book) == Payload("book", <<book>>, NaN, NaN, 0)
NoPayload == Payload("none", <<>>, NaN, NaN, 0)

\* sendJSON(res, status, payload), res carrying the headers set so far
sendJSON(hdrs, status, payload) ==
  [status |-> status, hdrs |-> hdrs \cup {"Content-Type", "Content-Length"},
   payload |-> payload, ended |-> TRUE]

\* res.statusCode = 204; res.end()
EndPreflight(hdrs) ==
  [status |-> 204, hdrs |-> hdrs, payload |-> NoPayload, ended |-> TRUE]

NoResponse == [status |-> 0, hdrs |-> {}, payload |-> NoPayload, ended |-> FALSE]

(* The finally block: res.setHeader('X-Response-Time-ms', ...).  setHeader *)
(* throws ERR_HTTP_HEADERS_SENT once the headers are sent, which leaves    *)
(* the response as it is and rejects the promise of the async handler.     *)
finallyBlock(res) ==
  IF res.ended
  THEN [res |-> res, rejected |-> TRUE]
  ELSE [res |-> [res EXCEPT !.hdrs = @ \cup {"X-Response-Time-ms"}],
        rejected |-> FALSE]

-----------------------------------------------------------------------------
(* The routes, as functions of the store and the request *)

Ten == <<"1","0">>
One == <<"1">>

\* searchParams.get(name) || dflt: the default also replaces an empty value
OrDefault(param, dflt) == IF param.present /\ param.v # <<>> THEN param.v ELSE dflt

\* GET /books: the payload {page, limit, total, data}
ListPayload(bks, query) ==
  LET limit == parseInt(OrDefault(query.limit, Ten))
      page == parseInt(OrDefault(query.page, One))
      author == query.author
      list == IF author.present /\ author.v # <<>>
              THEN filterAuthor(bks, author.v) ELSE bks
      startIdx == NumMul(NumSub(page, Num(1)), limit)
      pageItems == slice(list, startIdx, NumAdd(startIdx, limit))
  IN Payload("list", pageItems, page, limit, Len(list))

\* mutant of NewBook: title and author exchanged
NewBook_swapped(id, body) == Book(id, String(BodyAuthor(body)), String(BodyTitle(body)))

\* POST /books: the record built from the body
NewBook(id, body) == Book(id, String(BodyTitle(body)), String(BodyAuthor(body)))

\* mutant of Incremented: the counter is read and not advanced
Incremented_not(n) == n

\* the value of nextId after `nextId++`
Incremented(n) == n + 1

\* mutant of Patched: both fields assigned whether supplied or not
Patched_both(book, body) ==
  [book EXCEPT !.title = String(BodyTitle(body)), !.author = String(BodyAuthor(body))]

\* PATCH /books/:id: the record after the two conditional assignments
Patched(book, body) ==
  [book EXCEPT
     !.title = IF BodyTitle(body).t # "undefined" THEN String(BodyTitle(body)) ELSE @,
     !.author = IF BodyAuthor(body).t # "undefined" THEN String(BodyAuthor(body)) ELSE @]

-----------------------------------------------------------------------------
(* State *)

Idle == Req("idle", "", 0, NoAuth, NoQuery)
NoReq == Req("none", "", 0, NoAuth, NoQuery)
Unread == [k |-> "unread", title |-> Undefined, author |-> Undefined]

Slots == 1..MaxInFlight

Init ==
  /\ books = SeedBooks
  /\ nextId = SeedNextId
  /\ pending = [i \in Slots |-> Idle]
  /\ last = [req |-> NoReq, raw |-> Unread, res |-> NoResponse, rejected |-> FALSE]
  /\ running = TRUE
  /\ deleted = {}
  /\ created = {}

\* the handler returns from inside try: the finally block runs
Finish(req, raw, res) ==
  last' = [req |-> req, raw |-> raw, res |-> finallyBlock(res).res,
           rejected |-> finallyBlock(res).rejected]

\* the records of `created` that a mutation of id invalidates
Forget(id) == {b \in created : b.id # id}

-----------------------------------------------------------------------------
(* Handlers that finish without suspending *)

\* OPTIONS: answered before the try block is entered
Preflight(req) ==
  /\ running /\ Route(req) = "options"
  /\ last' = [req |-> req, raw |-> Unread, res |-> EndPreflight(CorsHeaders),
              rejected |-> FALSE]
  /\ UNCHANGED <<books, nextId, pending, running, deleted, created>>

GetBooks(req) ==
  /\ running /\ Route(req) = "list"
  /\ Finish(req, Unread, sendJSON(CorsHeaders, 200, ListPayload(books, req.query)))
  /\ UNCHANGED <<books, nextId, pending, running, deleted, created>>

GetBook(req) ==
  /\ running /\ Route(req) = "get"
  /\ LET idx == findIndex(books, req.id)
     IN IF idx = 0
        THEN Finish(req, Unread, sendJSON(CorsHeaders, 404, ErrorPayload))
        ELSE Finish(req, Unread,
                    sendJSON(CorsHeaders \cup {"X-Server-Note"}, 200,
                             Payload("bookCookies", <<books[idx]>>, NaN, NaN, 0)))
  /\ UNCHANGED <<books, nextId, pending, running, deleted, created>>

Unauthorized(req) ==
  /\ running /\ Route(req) = "unauthorized"
  /\ Finish(req, Unread,
            sendJSON(CorsHeaders \cup {"WWW-Authenticate"}, 401, ErrorPayload))
  /\ UNCHANGED <<books, nextId, pending, running, deleted, created>>

Delete(req) ==
  /\ running /\ Route(req) = "delete"
  /\ LET idx == findIndex(books, req.id)
     IN IF idx = 0
        THEN /\ Finish(req, Unread, sendJSON(CorsHeaders, 404, ErrorPayload))
             /\ UNCHANGED <<books, deleted, created>>
        ELSE /\ books' = splice(books, idx)
             /\ Finish(req, Unread, sendJSON(CorsHeaders, 200, BookPayload(books[idx])))
             /\ deleted' = deleted \cup {req.id}
             /\ created' = Forget(req.id)
  /\ UNCHANGED <<nextId, pending, running>>

NotFound(req) ==
  /\ running /\ Route(req) = "notfound"
  /\ Finish(req, Unread, sendJSON(CorsHeaders, 404, ErrorPayload))
  /\ UNCHANGED <<books, nextId, pending, running, deleted, created>>

-----------------------------------------------------------------------------
(* Handlers that suspend at `await readBody(req)` *)

\* the handler runs up to the await and is suspended; `limit` is the number
\* of requests the clients keep in flight
Suspend(req, slot, limit) ==
  /\ running /\ Route(req) \in {"post", "put", "patch"}
  /\ Cardinality({i \in Slots : pending[i] # Idle}) < limit
  /\ pending[slot] = Idle
  /\ \A j \in Slots : j < slot => pending[j] # Idle
  /\ pending' = [pending EXCEPT ![slot] = req]
  /\ UNCHANGED <<books, nextId, last, running, deleted, created>>

\* the 'end' event of the request stream: POST /books resumes
PostEnd(slot, raw) ==
  /\ running /\ Route(pending[slot]) = "post"
  /\ LET req == pending[slot]
         body == readBody(raw)
         book == NewBook(nextId, body)
     IN IF MissingTitleOrAuthor(body)
        THEN /\ Finish(req, raw, sendJSON(CorsHeaders, 400, ErrorPayload))
             /\ UNCHANGED <<books, nextId, created>>
        ELSE /\ nextId < MaxNextId
             /\ nextId' = Incremented(nextId)
             /\ books' = Append(books, book)
             /\ Finish(req, raw,
                       sendJSON(CorsHeaders \cup {"Set-Cookie"}, 201, BookPayload(book)))
             /\ created' = created \cup {book}
  /\ pending' = [pending EXCEPT ![slot] = Idle]
  /\ UNCHANGED <<running, deleted>>

\* the 'end' event of the request stream: PUT /books/:id resumes
PutEnd(slot, raw) ==
  /\ running /\ Route(pending[slot]) = "put"
  /\ LET req == pending[slot]
         id == req.id
         body == readBody(raw)
         idx == findIndex(books, id)
     IN IF MissingTitleOrAuthor(body)
        THEN /\ Finish(req, raw, sendJSON(CorsHeaders, 400, ErrorPayload))
             /\ UNCHANGED <<books, created>>
        ELSE IF idx = 0
        THEN /\ Finish(req, raw, sendJSON(CorsHeaders, 404, ErrorPayload))
             /\ UNCHANGED <<books, created>>
        ELSE /\ books' = [books EXCEPT ![idx] = NewBook(id, body)]
             /\ Finish(req, raw, sendJSON(CorsHeaders, 200, BookPayload(NewBook(id, body))))
             /\ created' = Forget(id)
  /\ pending' = [pending EXCEPT ![slot] = Idle]
  /\ UNCHANGED <<nextId, running, deleted>>

\* the 'end' event of the request stream: PATCH /books/:id resumes
PatchEnd(slot, raw) ==
  /\ running /\ Route(pending[slot]) = "patch"
  /\ LET req == pending[slot]
         body == readBody(raw)
         idx == findIndex(books, req.id)
     IN IF ~BodyTruthy(body)
        THEN /\ Finish(req, raw, sendJSON(CorsHeaders, 400, ErrorPayload))
             /\ UNCHANGED <<books, created>>
        ELSE IF idx = 0
        THEN /\ Finish(req, raw, sendJSON(CorsHeaders, 404, ErrorPayload))
             /\ UNCHANGED <<books, created>>
        ELSE /\ books' = [books EXCEPT ![idx] = Patched(books[idx], body)]
             /\ Finish(req, raw,
                       sendJSON(CorsHeaders, 200, BookPayload(Patched(books[idx], body))))
             /\ created' = Forget(req.id)
  /\ pending' = [pending EXCEPT ![slot] = Idle]
  /\ UNCHANGED <<nextId, running, deleted>>

\* the 'error' event of the request stream: readBody rejects, the await
\* throws, and the catch block answers 500
BodyError(slot) ==
  /\ running /\ pending[slot] # Idle
  /\ Finish(pending[slot], Unread, sendJSON(CorsHeaders, 500, ErrorPayload))
  /\ pending' = [pending EXCEPT ![slot] = Idle]
  /\ UNCHANGED <<books, nextId, running, deleted, created>>

(* The promise of a handler whose finally block threw is rejected and      *)
(* nothing handles it.  Depending on the runtime's unhandled-rejections    *)
(* mode the process goes on (warning only) or ends, and the suspended      *)
(* handlers end with it.                                                   *)
UnhandledRejection ==
  /\ running /\ last.rejected
  /\ running' = FALSE
  /\ pending' = [i \in Slots |-> Idle]
  /\ UNCHANGED <<books, nextId, last, deleted, created>>

-----------------------------------------------------------------------------
(* One step of the server over a set of requests Rs and the body texts Ts  *)
(* that the clients send with a POST, a PUT and a PATCH, with at most      *)
(* `limit` requests in flight                                              *)

Step(Rs, Ts, limit) ==
  \/ \E req \in Rs : Preflight(req)
  \/ \E req \in Rs : GetBooks(req)
  \/ \E req \in Rs : GetBook(req)
  \/ \E req \in Rs : Unauthorized(req)
  \/ \E req \in Rs : Delete(req)
  \/ \E req \in Rs : NotFound(req)
  \/ \E req \in Rs, slot \in Slots : Suspend(req, slot, limit)
  \/ \E slot \in Slots, raw \in Ts.post : PostEnd(slot, raw)
  \/ \E slot \in Slots, raw \in Ts.put : PutEnd(slot, raw)
  \/ \E slot \in Slots, raw \in Ts.patch : PatchEnd(slot, raw)
  \/ \E slot \in Slots : BodyError(slot)
  \/ UnhandledRejection

-----------------------------------------------------------------------------
(* Inputs *)

Ky == <<"K","y">>
Good == Auth("Bearer", DEMO_BEARER)
Wrong == Auth("Bearer", "wrong")

Query(l, p, a) == [limit |-> l, page |-> p, author |-> a]

\* the same body texts for every method
Same(texts) == [post |-> texts, put |-> texts, patch |-> texts]

\* one request for each branch that neither reads a body nor changes the store
Plain ==
  {Req("OPTIONS", "/books", 0, NoAuth, NoQuery), Req("GET", "/other", 0, NoAuth, NoQuery),
   Req("GET", "/books", 0, NoAuth, NoQuery), Req("POST", "/books", 0, NoAuth, NoQuery)}

Get(i) == Req("GET", "/books/:id", i, NoAuth, NoQuery)
Post == Req("POST", "/books", 0, Good, NoQuery)
Put(i) == Req("PUT", "/books/:id", i, Good, NoQuery)
Patch(i) == Req("PATCH", "/books/:id", i, Good, NoQuery)
Del(i) == Req("DELETE", "/books/:id", i, Good, NoQuery)

-----------------------------------------------------------------------------
(* Spec: concurrent clients.  Record 2 is a seed record, record 4 the      *)
(* first one POST creates.                                                 *)

Requests ==
  Plain \cup {Get(2), Get(4), Post, Put(2), Patch(2), Patch(4), Del(2), Del(4)}

Bodies == {EmptyText, JsonText(JStr(Ky), JStr(Ky)), JsonText(JNum(7), Undefined)}

Next == Step(Requests, Same(Bodies), MaxInFlight)

Spec == Init /\ [][Next]_vars

-----------------------------------------------------------------------------
(* SpecBody: one client, every shape of body with POST and PUT.  Record 4   *)
(* exists only between its POST and its DELETE.                            *)

FieldValues == {Undefined, JStr(<<>>), JStr(Ky), JNum(7)}

BodyTexts == {EmptyText, BadText} \cup {JsonText(t, a) : t, a \in FieldValues}

BodyRequests == Plain \cup {Get(2), Get(4), Post, Put(2), Put(4), Patch(2), Del(4)}

NextBody ==
  Step(BodyRequests,
       [post |-> BodyTexts, put |-> BodyTexts, patch |-> {JsonText(JStr(Ky), Undefined)}],
       1)

SpecBody == Init /\ [][NextBody]_vars

-----------------------------------------------------------------------------
(* SpecPatch: one client, every shape of body with PATCH, of the seed      *)
(* record 2 and of record 4                                                *)

PatchRequests == Plain \cup {Get(2), Post, Put(2), Patch(2), Patch(4), Del(4)}

NextPatch ==
  Step(PatchRequests,
       [post |-> {JsonText(JStr(Ky), JStr(Ky))}, put |-> {JsonText(JStr(Ky), JStr(Ky))},
        patch |-> BodyTexts],
       1)

SpecPatch == Init /\ [][NextPatch]_vars

-----------------------------------------------------------------------------
(* SpecAuth: one client, every method and path with every kind of          *)
(* Authorization header                                                    *)

AuthHeaders ==
  {NoAuth, Wrong, Good, Auth("bearer", DEMO_BEARER), Auth("Basic", DEMO_BEARER)}

AuthRequests ==
  Plain \cup {Get(2)}
  \cup {Req(m, "/books", 0, a, NoQuery) : m \in {"POST", "PUT", "PATCH", "DELETE"}, a \in AuthHeaders}
  \cup {Req(m, "/books/x", 0, a, NoQuery) : m \in {"POST", "DELETE"}, a \in AuthHeaders}
  \cup {Req(m, "/books/:id", i, a, NoQuery) :
          m \in {"PUT", "PATCH", "DELETE"}, i \in {2, 4}, a \in AuthHeaders}
  \cup {Req("POST", "/other", 0, NoAuth, NoQuery)}

AuthTexts == {EmptyText, JsonText(JStr(Ky), JStr(Ky))}

NextAuth == Step(AuthRequests, Same(AuthTexts), 1)

SpecAuth == Init /\ [][NextAuth]_vars

-----------------------------------------------------------------------------
(* SpecList: one client, GET /books with every query over the collections  *)
(* that a POST, a PATCH and a DELETE produce                               *)

LimitValues == {NoParam, Param(<<>>), Param(<<"1">>), Param(<<"2">>),
                Param(<<"-","1">>), Param(<<"x">>)}
PageValues == {NoParam, Param(<<"2">>), Param(<<"3">>), Param(<<"0">>), Param(<<"-","1">>)}
AuthorValues == {NoParam, Param(<<"k","y">>), Param(<<"K","Y","L","E">>),
                 Param(<<"M","A","R">>)}

ListRequests ==
  Plain \cup {Get(2), Post, Put(2), Patch(2), Del(2)}
  \cup {Req("GET", "/books", 0, NoAuth, Query(l, p, a)) :
          l \in LimitValues, p \in PageValues, a \in AuthorValues}

ListTexts == {JsonText(JStr(Ky), JStr(Ky)), JsonText(JNum(7), Undefined)}

NextList == Step(ListRequests, Same(ListTexts), 1)

SpecList == Init /\ [][NextList]_vars

-----------------------------------------------------------------------------
(* Vocabulary of the properties *)

Ids(bks) == {bks[i].id : i \in 1..Len(bks)}

\* this step resumes and finishes the handler suspended in slot
Resumed(slot) == pending[slot] # Idle /\ pending'[slot] = Idle /\ running'

\* this step is a handler finishing with the given method and status
Answers(method, status) ==
  /\ last'.req.method = method /\ last'.res.status = status
  /\ (last' # last \/ books' # books \/ \E slot \in Slots : Resumed(slot))

\* books' is books without its element at idx
RemovedAt(idx) ==
  /\ Len(books') = Len(books) - 1
  /\ \A j \in 1..Len(books') : books'[j] = IF j < idx THEN books[j] ELSE books[j + 1]

\* books' is books with the element at idx replaced by book, nothing else
ReplacedAt(idx, book) ==
  /\ Len(books') = Len(books)
  /\ \A j \in 1..Len(books) : books'[j] = IF j = idx THEN book ELSE books[j]

-----------------------------------------------------------------------------
(* C1: a POST, PUT, PATCH or DELETE on a path beginning with /books whose  *)
(* Authorization header is missing or carries no bearer token equal to the *)
(* secret is answered 401 with WWW-Authenticate, without the body being    *)
(* read (the handler is never suspended), whether or not the id exists,    *)
(* and books and nextId stay as they are.                                  *)
LacksSecret(req) ==
  \/ ~req.auth.present
  \/ req.auth.scheme \notin {"Bearer", "bearer"}
  \/ req.auth.cred # DEMO_BEARER

Gated(req) ==
  /\ req.method \in {"POST", "PUT", "PATCH", "DELETE"}
  /\ req.path \in {"/books", "/books/:id", "/books/x"}
  /\ LacksSecret(req)

C1_AuthGate ==
  /\ [](/\ Gated(last.req) =>
             /\ last.res.status = 401
             /\ "WWW-Authenticate" \in last.res.hdrs
             /\ last.raw = Unread
        /\ \A slot \in Slots : ~Gated(pending[slot]))
  /\ [][Gated(last'.req) => books' = books /\ nextId' = nextId]_vars

\* an unauthorized DELETE of an existing record and of an unknown id
C1_Witness ==
  /\ last.req.method = "DELETE" /\ last.req.auth = Wrong /\ last.res.status = 401
  /\ last.req.id = 4 /\ 4 \notin Ids(books) /\ 2 \in Ids(books)
  /\ nextId > SeedNextId

-----------------------------------------------------------------------------
(* C2: every response the server sends carries the header                  *)
(* X-Response-Time-ms.  The handler calls res.end() before the finally     *)
(* block sets the header, so no response has it.                           *)
C2_TimingHeaderOnEveryResponse ==
  last.res.ended => "X-Response-Time-ms" \in last.res.hdrs

-----------------------------------------------------------------------------
(* C3: ids in the collection are pairwise distinct and smaller than        *)
(* nextId; nextId never decreases; a created book never gets the id of a   *)
(* deleted book; PUT and PATCH keep the id of every position.              *)
C3_IdsUniqueAndMonotone ==
  /\ [](/\ \A i, j \in 1..Len(books) : books[i].id = books[j].id => i = j
        /\ \A i \in 1..Len(books) : books[i].id < nextId
        /\ \A d \in deleted : d < nextId /\ d \notin Ids(books))
  /\ [][/\ nextId' >= nextId
        /\ Ids(books') \ Ids(books) # {} =>
             /\ Ids(books') \ Ids(books) = {nextId}
             /\ nextId \notin deleted
             /\ nextId' > nextId
        /\ \A slot \in Slots :
             Resumed(slot) /\ pending[slot].method \in {"PUT", "PATCH"} =>
               /\ Len(books') = Len(books)
               /\ \A i \in 1..Len(books) : books'[i].id = books[i].id]_vars

\* a record was deleted, a record was created after it, and a PATCH of the
\* created record has answered 200
C3_Witness ==
  /\ \E i \in 1..Len(books) : \E d \in deleted :
        books[i].id > d /\ books[i].id >= SeedNextId
  /\ last.req.method = "PATCH" /\ last.res.status = 200
  /\ last.req.id >= SeedNextId

-----------------------------------------------------------------------------
(* C6: after a DELETE answered 200 for an id, every GET of that id answers *)
(* 404; a DELETE removes exactly the first record with the id and keeps    *)
(* the others in their order.                                              *)
C6_DeletedStaysGone ==
  /\ [](last.req.method = "GET" /\ HasBookId(last.req) /\ last.req.id \in deleted
          => last.res.status = 404)
  /\ [][/\ Answers("DELETE", 200) =>
             /\ \E idx \in 1..Len(books) :
                  /\ books[idx].id = last'.req.id
                  /\ RemovedAt(idx)
                  /\ last'.res.payload.data = <<books[idx]>>
             /\ last'.req.id \notin Ids(books')
        /\ Len(books') < Len(books) => Answers("DELETE", 200)]_vars

\* a GET of a deleted id answered after a later POST created a record
C6_Witness ==
  /\ last.req.method = "GET" /\ HasBookId(last.req) /\ last.req.id \in deleted
  /\ last.res.status = 404
  /\ nextId > SeedNextId /\ Len(books) >= 3

-----------------------------------------------------------------------------
-----------------------------------------------------------------------------
(* C4: an authorized POST /books or PUT /books/:id whose body has no       *)
(* title or no author, or is empty, answers 400; books and nextId stay as  *)
(* they are and no Set-Cookie header is sent.                              *)
LacksField(raw) ==
  \/ raw.k \in {"empty", "text"}
  \/ raw.k = "json" /\ (raw.title = Undefined \/ raw.author = Undefined)

C4_MissingFieldsRejected ==
  [][\A slot \in Slots :
       /\ Resumed(slot)
       /\ \/ pending[slot].method = "POST" /\ pending[slot].path = "/books"
          \/ pending[slot].method = "PUT" /\ pending[slot].path = "/books/:id"
       /\ LacksField(last'.raw)
       => /\ last'.req = pending[slot]
          /\ last'.res.status = 400
          /\ "Set-Cookie" \notin last'.res.hdrs
          /\ books' = books /\ nextId' = nextId]_vars

\* a PUT of an existing record with a title and no author was answered 400
C4_Witness ==
  /\ last.req.method = "PUT" /\ last.req.id \in Ids(books)
  /\ last.raw = JsonText(JStr(Ky), Undefined)
  /\ last.res.status = 400

-----------------------------------------------------------------------------
(* C5: an authorized PATCH of an existing id changes only the fields its   *)
(* body supplies; the record keeps its id and position, every other        *)
(* record, the length of the collection and nextId stay as they are.       *)
C5_PatchFrame ==
  [][\A slot \in Slots :
       /\ Resumed(slot)
       /\ pending[slot].method = "PATCH" /\ pending[slot].id \in Ids(books)
       /\ last'.raw.k \in {"empty", "text", "json"}
       => \E idx \in 1..Len(books) :
            /\ books[idx].id = pending[slot].id
            /\ ReplacedAt(idx, books'[idx])
            /\ books'[idx].id = books[idx].id
            /\ nextId' = nextId
            /\ last'.raw.title = Undefined => books'[idx].title = books[idx].title
            /\ last'.raw.author = Undefined => books'[idx].author = books[idx].author
            /\ last'.raw.title # Undefined => books'[idx].title = String(last'.raw.title)
            /\ last'.raw.author # Undefined => books'[idx].author = String(last'.raw.author)
            /\ last'.raw.k = "json" =>
                 last'.res.status = 200 /\ last'.res.payload.data = <<books'[idx]>>]_vars

\* a PATCH with a title only changed the title of record 2, whose author is
\* still the seed author
C5_Witness ==
  /\ last.req.method = "PATCH" /\ last.res.status = 200
  /\ last.raw = JsonText(JStr(Ky), Undefined)
  /\ \E i \in 1..Len(books) :
       books[i] = Book(2, Ky, KyleSimpson) /\ last.req.id = 2

-----------------------------------------------------------------------------
-----------------------------------------------------------------------------
(* C8: GET /books answers 200 with total the number of records whose       *)
(* author contains the author value without regard to case, and data the   *)
(* records at positions (page-1)*limit+1 .. page*limit of that filtered    *)
(* list; limit defaults to 10 and page to 1.                               *)
RECURSIVE Matching(_, _)
Matching(list, q) ==
  IF list = <<>> THEN <<>>
  ELSE IF ~q.present \/ includes(toLowerCase(Head(list).author), toLowerCase(q.v))
       THEN <<Head(list)>> \o Matching(Tail(list), q)
       ELSE Matching(Tail(list), q)

PagePositions(list, page, limit) ==
  {k \in 1..Len(list) : (page - 1) * limit + 1 <= k /\ k <= page * limit}

C8_ListIsThePage ==
  /\ last.req.method = "GET" /\ last.req.path = "/books"
  /\ ~last.res.payload.limit.nan /\ ~last.res.payload.page.nan
  => LET list == Matching(books, last.req.query.author)
         limit == last.res.payload.limit.n
         page == last.res.payload.page.n
         pos == PagePositions(list, page, limit)
         data == last.res.payload.data
     IN /\ last.res.status = 200
        /\ last.res.payload.total = Len(list)
        /\ limit = (IF last.req.query.limit.present /\ last.req.query.limit.v # <<>>
                    THEN limit ELSE 10)
        /\ page = (IF last.req.query.page.present THEN page ELSE 1)
        /\ Len(data) = Cardinality(pos)
        /\ \A i \in 1..Len(data) : data[i] = list[(page - 1) * limit + i]

-----------------------------------------------------------------------------
(* C10: an authorized POST, PUT or PATCH whose body is text that is not    *)
(* JSON answers 400.                                                       *)
C10_BadJsonRejected ==
  /\ last.req.method \in {"POST", "PUT", "PATCH"}
  /\ last.raw.k = "text"
  => last.res.status = 400

====
